---- MODULE Spec2Model ----
(***************************************************************************)
(* Model of the crossword constraint solver, src/generate.py               *)
(* (class CrosswordCreator): node consistency, revise, ac3, consistent,    *)
(* select_unassigned_variable, backtrack and solve, driven by a client     *)
(* that calls the public methods of one CrosswordCreator object.           *)
(*                                                                         *)
(* Python values are modelled as follows.  A word is a sequence of         *)
(* one-letter strings, and the 0-based index k of Python is the index k+1  *)
(* here.  A slot (Variable) is a record of its four attributes.  A set     *)
(* (crossword.words, a domain, crossword.neighbors) is a set, and every    *)
(* iteration over one is a nondeterministic choice of order.  A dict       *)
(* keeps insertion order: self.domains is a function plus the sequence     *)
(* varOrder of its keys.  An uncaught exception ends the run in            *)
(* pc = "raised".                                                          *)
(***************************************************************************)
EXTENDS Integers, Sequences, FiniteSets, TLC

VARIABLES crossword, varOrder, domains, pc, op, arg, ret, queue, stack, inSolve

vars == <<crossword, varOrder, domains, pc, op, arg, ret, queue, stack, inSolve>>

(***************************************************************************)
(* Bounds and inputs.                                                      *)
(***************************************************************************)
\* Largest number of words in a word list drawn from the vocabulary.
MaxWords == 3

CAT == <<"C", "A", "T">>
DOG == <<"D", "O", "G">>
ART == <<"A", "R", "T">>
TIP == <<"T", "I", "P">>
COT == <<"C", "O", "T">>
AT == <<"A", "T">>

\* The words a word list is drawn from.
Vocabulary == {CAT, DOG, ART, TIP, COT, AT}

\* The word list of the scenario of section 8 of the specification.
ScenarioWords == {CAT, DOG, ART, TIP}

WordLists == {W \in SUBSET Vocabulary : Cardinality(W) <= MaxWords} \cup {ScenarioWords}

ACROSS == "across"
DOWN == "down"

\* Variable(i, j, direction, length): a slot starting at row i, column j.
Variable(i, j, direction, length) ==
    [i |-> i, j |-> j, direction |-> direction, length |-> length]

\* The puzzle with no slot at all.
LayoutEmpty == {}
\* ___      A = across row 0, B = down column 1: A[1] meets B[0].
\* #_#
\* #_#
LayoutT == {Variable(0, 0, ACROSS, 3), Variable(0, 1, DOWN, 3)}
\* #_#      A = across row 1, B = down column 1: A[1] meets B[1].
\* ___
\* #_#
LayoutCross == {Variable(1, 0, ACROSS, 3), Variable(0, 1, DOWN, 3)}
\* __#      A = across row 0 (length 2), B = across row 2: no common cell.
\* ###
\* ___
LayoutApart == {Variable(0, 0, ACROSS, 2), Variable(2, 0, ACROSS, 3)}
\* ___      A = across row 0, B = down column 0, C = down column 2:
\* _#_      A[0] meets B[0], A[2] meets C[0].
\* _#_
LayoutU == {Variable(0, 0, ACROSS, 3), Variable(0, 0, DOWN, 3),
            Variable(0, 2, DOWN, 3)}

Layouts == {LayoutEmpty, LayoutT, LayoutCross, LayoutApart, LayoutU}

(***************************************************************************)
(* Helpers.                                                                *)
(***************************************************************************)
Range(f) == {f[x] : x \in DOMAIN f}

\* The sequences that list every element of S exactly once.
Perms(S) ==
    {f \in [1..Cardinality(S) -> S] : \A a, b \in DOMAIN f : f[a] = f[b] => a = b}

\* word[k] of Python, for an index k that is in range.
Letter(word, k) == word[k + 1]

(***************************************************************************)
(* The problem model (class Crossword and class Variable).                 *)
(***************************************************************************)
\* Variable.cells: the k-th cell (0-based) of slot v.
Cell(v, k) ==
    <<v.i + (IF v.direction = DOWN THEN k ELSE 0),
      v.j + (IF v.direction = ACROSS THEN k ELSE 0)>>

Cells(v) == {Cell(v, k) : k \in 0..(v.length - 1)}

\* The value None of crossword.overlaps for a pair without a common cell.
NoOverlap == <<>>

\* crossword.overlaps[v1, v2] for v1 # v2: NoOverlap, or <<i, j>> where the
\* i-th letter of v1 is the j-th letter of v2.
Overlaps(v1, v2) ==
    IF Cells(v1) \cap Cells(v2) = {}
    THEN NoOverlap
    ELSE LET c == CHOOSE c \in Cells(v1) \cap Cells(v2) : TRUE
             i == CHOOSE k \in 0..(v1.length - 1) : Cell(v1, k) = c
             j == CHOOSE k \in 0..(v2.length - 1) : Cell(v2, k) = c
         IN <<i, j>>

\* crossword.neighbors(var).
Neighbors(var) ==
    {v \in crossword.variables : v # var /\ Overlaps(v, var) # NoOverlap}

(***************************************************************************)
(* Return values.  kind is "True", "False", "None", "assignment",          *)
(* "variable", "list", or the name of the exception that was raised.       *)
(***************************************************************************)
EmptyAssignment == [v \in {} |-> <<>>]

Ret(kind) == [kind |-> kind, asg |-> EmptyAssignment, var |-> {}, list |-> <<>>]
RetBool(b) == Ret(IF b THEN "True" ELSE "False")
\* Mutant: failure is reported as an empty mapping.
RetNoneAsEmptyMapping == Ret("assignment")
RetNone == Ret("None")
RetAssignment(a) == [Ret("assignment") EXCEPT !.asg = a]
RetVariable(v) == [Ret("variable") EXCEPT !.var = {v}]

Raised(r) == r.kind \in {"TypeError", "IndexError", "UnboundLocalError", "AttributeError"}

NoArg == [x |-> {}, y |-> {}, asg |-> EmptyAssignment, arcs |-> {}]

(***************************************************************************)
(* enforce_node_consistency.                                               *)
(***************************************************************************)
\* Mutant: keeps every word that is not longer than the slot.
NodeConsistentDomainAtMost(v, D) == {word \in D[v] : Len(word) <= v.length}

\* The domain of v after the loop over domain_copy[v]: every word whose
\* length differs from v.length has been removed.
NodeConsistentDomain(v, D) == {word \in D[v] : ~(Len(word) # v.length)}

\* Mutant: every domain is built again from the word list.
EnforceNodeConsistencyFromWordList(D) ==
    [v \in DOMAIN D |-> {word \in crossword.words : Len(word) = v.length}]

\* The domains after the loop over the variables of domain_copy.
EnforceNodeConsistency(D) == [v \in DOMAIN D |-> NodeConsistentDomain(v, D)]

(***************************************************************************)
(* revise(x, y), for x # y.                                                *)
(***************************************************************************)
\* Mutant: a word is kept only if it matches every word of Y.
SupportedByEveryWord(xword, Y, xoverlap, yoverlap) ==
    \A yword \in Y : Letter(xword, xoverlap) = Letter(yword, yoverlap)

\* The inner loop of revise finds a match for xword among the words Y:
\* some yword has xword[xoverlap] == yword[yoverlap].  Y holds only words
\* that are long enough, and so does xword.
Supported(xword, Y, xoverlap, yoverlap) ==
    \E yword \in Y : Letter(xword, xoverlap) = Letter(yword, yoverlap)

\* What one pass of the outer loop does with xword, when the iteration of
\* domain(y) meets the words Pre before its first word that is too short
\* for yoverlap (Pre is all of domain(y) when no word is too short):
\* "keep", "remove", or "raise" for the IndexError of an index out of range.
ReviseWord(xword, Y, Pre, xoverlap, yoverlap) ==
    IF Y = {} THEN "remove"
    ELSE IF Len(xword) <= xoverlap THEN "raise"
    ELSE IF Supported(xword, Pre, xoverlap, yoverlap) THEN "keep"
    ELSE IF Pre # Y THEN "raise"
    ELSE "remove"

\* `if xoverlap:` skips the loops when the offset of the overlap in x is 0.
ReviseSkips(xoverlap) == ~(xoverlap # 0)

\* The possible results of revise(x, y) on the domains D: the new domains
\* and the value returned or the exception raised.
ReviseOutcomes(D, x, y) ==
    IF Overlaps(x, y) = NoOverlap
    THEN \* unpacking None raises TypeError
         {[domains |-> D, ret |-> Ret("TypeError")]}
    ELSE
      LET xoverlap == Overlaps(x, y)[1]
          yoverlap == Overlaps(x, y)[2]
          X == D[x]
          Y == D[y]
          Long == {yword \in Y : Len(yword) > yoverlap}
          Pres == IF Long = Y THEN {Y} ELSE SUBSET Long
          Fate(xword, Pre) == ReviseWord(xword, Y, Pre, xoverlap, yoverlap)
          Removed(Pre) == {xword \in X : Fate(xword, Pre) = "remove"}
          Raising(Pre) == {xword \in X : Fate(xword, Pre) = "raise"}
      IN IF ReviseSkips(xoverlap)
         THEN {[domains |-> D, ret |-> RetBool(FALSE)]}
         ELSE UNION {
                IF Raising(Pre) = {}
                THEN {[domains |-> [D EXCEPT ![x] = X \ Removed(Pre)],
                       ret |-> RetBool(Removed(Pre) # {})]}
                ELSE \* Done: the words removed before the pass that raises
                     {[domains |-> [D EXCEPT ![x] = X \ Done],
                       ret |-> Ret("IndexError")] : Done \in SUBSET Removed(Pre)}
                : Pre \in Pres}

(***************************************************************************)
(* ac3(arcs).                                                              *)
(***************************************************************************)
\* The arcs appended for variable1 by the inner loop over
\* crossword.neighbors(variable1), in every order of that set.
ArcsFrom(variable1) ==
    {[k \in DOMAIN p |-> <<variable1, p[k]>>] : p \in Perms(Neighbors(variable1))}

\* The queues the two nested loops over self.domains can build.
RECURSIVE InitialQueues(_)
InitialQueues(order) ==
    IF order = <<>> THEN {<<>>}
    ELSE {first \o rest : first \in ArcsFrom(Head(order)),
                          rest \in InitialQueues(Tail(order))}

\* The arcs (neighbour, x) appended after a revision of x against y.
Requeued(x, y) ==
    {[k \in DOMAIN p |-> <<p[k], x>>] : p \in Perms(Neighbors(x) \ {y})}

(***************************************************************************)
(* consistent(assignment).                                                 *)
(***************************************************************************)
\* Mutant: no test for a word used twice.
NoDuplicateWordsUnchecked(assignment) == TRUE

\* len(words) == len(set(words)) for the list of the assigned words.
NoDuplicateWords(assignment) ==
    Cardinality(DOMAIN assignment) = Cardinality(Range(assignment))

\* Mutant: no test of the overlaps.
OverlapsAgreeUnchecked(assignment) == TRUE

\* No assigned variable has an assigned neighbour whose letter differs at
\* the overlap.  Only reached with words of the right length.
OverlapsAgree(assignment) ==
    \A variable \in DOMAIN assignment :
        \A neighbour \in Neighbors(variable) :
            neighbour \in DOMAIN assignment =>
                LET x == Overlaps(variable, neighbour)[1]
                    y == Overlaps(variable, neighbour)[2]
                IN ~(Letter(assignment[variable], x) # Letter(assignment[neighbour], y))

Consistent(assignment) ==
    IF ~NoDuplicateWords(assignment) THEN FALSE
    ELSE IF \E variable \in DOMAIN assignment :
                variable.length # Len(assignment[variable]) THEN FALSE
    ELSE OverlapsAgree(assignment)

(***************************************************************************)
(* select_unassigned_variable(assignment).                                 *)
(***************************************************************************)
\* Mutant: the variables are sorted by the size of the domain, largest first.
SelectKeyLargest(variable, D) == 0 - Cardinality(D[variable])

\* key = lambda item: len(item[1]), the size of the domain of the variable.
SelectKey(variable, D) == Cardinality(D[variable])

\* sorted(items, key) is stable: each item in turn is inserted after the
\* items whose key is not larger.
RECURSIVE InsertByKey(_, _, _)
InsertByKey(sorted, item, D) ==
    IF sorted = <<>> THEN <<item>>
    ELSE IF SelectKey(item, D) < SelectKey(Head(sorted), D)
         THEN <<item>> \o sorted
         ELSE <<Head(sorted)>> \o InsertByKey(Tail(sorted), item, D)

RECURSIVE SortedByKey(_, _)
SortedByKey(items, D) ==
    IF items = <<>> THEN <<>>
    ELSE InsertByKey(SortedByKey(SubSeq(items, 1, Len(items) - 1), D),
                     items[Len(items)], D)

\* The keys of choice_dict in insertion order: the unassigned variables.
Unassigned(assignment, order) ==
    SelectSeq(order, LAMBDA variable : variable \notin DOMAIN assignment)

\* sorted_list of select_unassigned_variable.
SelectSortedList(assignment, D, order) ==
    SortedByKey(Unassigned(assignment, order), D)

\* sorted_list[0]; the caller makes sure the list is not empty.
SelectUnassignedVariable(assignment, D, order) ==
    Head(SelectSortedList(assignment, D, order))

(***************************************************************************)
(* order_domain_values(var, assignment).                                   *)
(***************************************************************************)
\* The loops that fill word_dict compare word[xoverlap] with
\* neighbour_word[yoverlap] for every word of the domain of var and every
\* word of the domain of every neighbour that is not in the assignment: one
\* of these indexes is out of range.
OrderDomainValuesIndexError(var, assignment, D) ==
    \E word \in D[var] : \E neighbour \in Neighbors(var) \ DOMAIN assignment :
        \E neighbour_word \in D[neighbour] :
            \/ Len(word) <= Overlaps(var, neighbour)[1]
            \/ Len(neighbour_word) <= Overlaps(var, neighbour)[2]

\* The exception that ends order_domain_values: an IndexError of the
\* loops, or else the exception of `word.dict.items()` in the statement
\* that sorts: `word` is unbound after a loop over an empty domain, and a
\* str without an attribute `dict` otherwise.  No path returns a list.
OrderDomainValues(var, assignment, D) ==
    IF OrderDomainValuesIndexError(var, assignment, D) THEN Ret("IndexError")
    ELSE IF D[var] = {} THEN Ret("UnboundLocalError")
    ELSE Ret("AttributeError")

(***************************************************************************)
(* backtrack(assignment).                                                  *)
(***************************************************************************)
\* len(assignment) == len(self.domains)
AssignmentFull(assignment, D) ==
    Cardinality(DOMAIN assignment) = Cardinality(DOMAIN D)

\* assignment_copy with assignment_copy[variable] = value.
Extend(assignment, variable, value) ==
    [v \in DOMAIN assignment \cup {variable} |->
        IF v = variable THEN value ELSE assignment[v]]

\* A call of backtrack that has reached its for loop: the assignment it
\* was given, the variable it selected, and the values of the domain of
\* that variable the loop has not reached yet.
Frame(assignment, D, order) ==
    LET variable == SelectUnassignedVariable(assignment, D, order)
    IN [assignment |-> assignment, variable |-> variable, untried |-> D[variable]]

(***************************************************************************)
(* CrosswordCreator.__init__ on a crossword from the loader.               *)
(***************************************************************************)
Init ==
    /\ \E L \in Layouts, W \in WordLists :
          /\ crossword = [variables |-> L, words |-> W]
          /\ domains = [v \in L |-> W]
          /\ varOrder \in Perms(L)
    /\ pc = "idle"
    /\ op = "__init__"
    /\ arg = NoArg
    /\ ret = RetNone
    /\ queue = <<>>
    /\ stack = <<>>
    /\ inSolve = FALSE

CallEnforceNodeConsistency ==
    /\ pc = "idle"
    /\ domains' = EnforceNodeConsistency(domains)
    /\ op' = "enforce_node_consistency"
    /\ arg' = NoArg
    /\ ret' = RetNone
    /\ UNCHANGED <<crossword, varOrder, pc, queue, stack, inSolve>>

\* revise(x, y) called by the client.
CallRevise ==
    /\ pc = "idle"
    /\ \E x, y \in crossword.variables :
          /\ x # y
          /\ \E out \in ReviseOutcomes(domains, x, y) :
                /\ domains' = out.domains
                /\ ret' = out.ret
                /\ pc' = IF Raised(out.ret) THEN "raised" ELSE "idle"
          /\ arg' = [NoArg EXCEPT !.x = {x}, !.y = {y}]
    /\ op' = "revise"
    /\ UNCHANGED <<crossword, varOrder, queue, stack, inSolve>>

\* ac3() or ac3(arcs) with nothing in arcs: up to the while loop.
CallAc3 ==
    /\ pc = "idle"
    /\ queue' \in InitialQueues(varOrder)
    /\ pc' = "ac3"
    /\ op' = "ac3"
    /\ arg' = NoArg
    /\ ret' = RetNone
    /\ UNCHANGED <<crossword, varOrder, domains, stack, inSolve>>

\* ac3(arcs) with at least one arc: queue is never bound, and the test of
\* the while loop raises UnboundLocalError.
CallAc3Arcs ==
    /\ pc = "idle"
    /\ \E x \in crossword.variables : \E y \in Neighbors(x) :
          arg' = [NoArg EXCEPT !.arcs = {<<x, y>>}]
    /\ pc' = "raised"
    /\ op' = "ac3"
    /\ ret' = Ret("UnboundLocalError")
    /\ UNCHANGED <<crossword, varOrder, domains, queue, stack, inSolve>>

\* Where a return of ac3 leads: back to the client, or to the call of
\* backtrack in solve, which ignores the value ac3 returned.
AfterAc3 == IF inSolve THEN "solve_backtrack" ELSE "idle"

\* The while loop of ac3 finds the queue empty: the function ends without
\* a return statement.
Ac3QueueEmpty ==
    /\ pc = "ac3"
    /\ queue = <<>>
    /\ ret' = RetNone
    /\ pc' = AfterAc3
    /\ UNCHANGED <<crossword, varOrder, domains, op, arg, queue, stack, inSolve>>

\* The one pass of the while loop of ac3: the arc at the head of the queue
\* is revised, and the pass ends in `return False` when the revision has
\* emptied the domain, and in the `return True` that closes the body of
\* the loop otherwise.
Ac3Iterate ==
    /\ pc = "ac3"
    /\ queue # <<>>
    /\ LET x == Head(queue)[1]
           y == Head(queue)[2]
       IN \E out \in ReviseOutcomes(domains, x, y) :
             /\ domains' = out.domains
             /\ arg' = [NoArg EXCEPT !.x = {x}, !.y = {y}]
             /\ IF Raised(out.ret)
                THEN /\ queue' = Tail(queue)
                     /\ ret' = out.ret
                     /\ pc' = "raised"
                ELSE IF out.ret.kind = "True" /\ out.domains[x] = {}
                THEN /\ queue' = Tail(queue)
                     /\ ret' = RetBool(FALSE)
                     /\ pc' = AfterAc3
                ELSE /\ IF out.ret.kind = "True"
                        THEN \E more \in Requeued(x, y) : queue' = Tail(queue) \o more
                        ELSE queue' = Tail(queue)
                     /\ ret' = RetBool(TRUE)
                     /\ pc' = AfterAc3
    /\ UNCHANGED <<crossword, varOrder, op, stack, inSolve>>

\* backtrack(dict()) up to its for loop, or to its return when there is
\* no variable to assign.
EnterBacktrack ==
    IF AssignmentFull(EmptyAssignment, domains)
    THEN /\ ret' = RetAssignment(EmptyAssignment)
         /\ stack' = <<>>
         /\ pc' = "idle"
         /\ op' = IF inSolve THEN "solve" ELSE "backtrack"
         /\ inSolve' = FALSE
    ELSE /\ ret' = RetNone
         /\ stack' = <<Frame(EmptyAssignment, domains, varOrder)>>
         /\ pc' = "backtrack"
         /\ op' = "backtrack"
         /\ UNCHANGED inSolve

\* backtrack(dict()) called by the client.
CallBacktrack ==
    /\ pc = "idle"
    /\ EnterBacktrack
    /\ arg' = NoArg
    /\ UNCHANGED <<crossword, varOrder, domains, queue>>

\* The last statement of solve: return self.backtrack(dict()).
SolveBacktrack ==
    /\ pc = "solve_backtrack"
    /\ EnterBacktrack
    /\ arg' = NoArg
    /\ UNCHANGED <<crossword, varOrder, domains, queue>>

\* Mutant: the for loop does not move past the value it has tried.
UntriedAfterKeepsValue(untried, value) == untried

\* The values the for loop over the domain has still to visit once it has
\* taken value.
UntriedAfter(untried, value) == untried \ {value}

\* Mutant: the value is assigned in the mapping of the caller, which is
\* then the mapping passed on.
CallerAssignmentAliased(assignment, assignment_copy) == assignment_copy

\* The mapping of the calling pass once assignment_copy, made by
\* assignment.copy(), has been extended: the copy shares nothing with it.
CallerAssignment(assignment, assignment_copy) == assignment

\* One pass of the for loop of the innermost call of backtrack: the next
\* value of the domain is tried, and if the extended assignment is
\* consistent backtrack is called on it.  A full assignment is returned
\* by that call and by every call below it.
BacktrackTry ==
    /\ pc = "backtrack"
    /\ LET top == stack[Len(stack)]
       IN /\ top.untried # {}
          /\ \E value \in top.untried :
                LET assignment_copy == Extend(top.assignment, top.variable, value)
                    rest == [top EXCEPT
                               !.untried = UntriedAfter(top.untried, value),
                               !.assignment = CallerAssignment(top.assignment,
                                                               assignment_copy)]
                IN IF ~Consistent(assignment_copy)
                   THEN /\ stack' = [stack EXCEPT ![Len(stack)] = rest]
                        /\ UNCHANGED <<pc, op, ret, inSolve>>
                   ELSE IF AssignmentFull(assignment_copy, domains)
                   THEN /\ stack' = <<>>
                        /\ ret' = RetAssignment(assignment_copy)
                        /\ pc' = "idle"
                        /\ op' = IF inSolve THEN "solve" ELSE "backtrack"
                        /\ inSolve' = FALSE
                   ELSE /\ stack' = [stack EXCEPT ![Len(stack)] = rest]
                                    \o <<Frame(assignment_copy, domains, varOrder)>>
                        /\ UNCHANGED <<pc, op, ret, inSolve>>
    /\ UNCHANGED <<crossword, varOrder, domains, arg, queue>>

\* Mutant: the loop has taken its values out of the domain itself, and
\* leaves the domain of the variable empty.
BacktrackExhaustedEmptiesDomain ==
    /\ pc = "backtrack"
    /\ stack[Len(stack)].untried = {}
    /\ stack' = SubSeq(stack, 1, Len(stack) - 1)
    /\ domains' = [domains EXCEPT ![stack[Len(stack)].variable] = {}]
    /\ IF Len(stack) = 1
       THEN /\ ret' = RetNone
            /\ pc' = "idle"
            /\ op' = IF inSolve THEN "solve" ELSE "backtrack"
            /\ inSolve' = FALSE
       ELSE UNCHANGED <<pc, op, ret, inSolve>>
    /\ UNCHANGED <<crossword, varOrder, arg, queue>>

\* The for loop of the innermost call of backtrack is over: the call
\* returns None, to the loop of its caller or to the client.
BacktrackExhausted ==
    /\ pc = "backtrack"
    /\ stack[Len(stack)].untried = {}
    /\ stack' = SubSeq(stack, 1, Len(stack) - 1)
    /\ IF Len(stack) = 1
       THEN /\ ret' = RetNone
            /\ pc' = "idle"
            /\ op' = IF inSolve THEN "solve" ELSE "backtrack"
            /\ inSolve' = FALSE
       ELSE UNCHANGED <<pc, op, ret, inSolve>>
    /\ UNCHANGED <<crossword, varOrder, domains, arg, queue>>

\* main() calls solve() on the CrosswordCreator it has just built:
\* enforce_node_consistency(), then ac3() up to its while loop.
CallSolve ==
    /\ pc = "idle"
    /\ op = "__init__"
    /\ domains' = EnforceNodeConsistency(domains)
    /\ queue' \in InitialQueues(varOrder)
    /\ pc' = "ac3"
    /\ op' = "ac3"
    /\ arg' = NoArg
    /\ ret' = RetNone
    /\ inSolve' = TRUE
    /\ UNCHANGED <<crossword, varOrder, stack>>

(***************************************************************************)
(* Calls of the methods that only read: consistent,                        *)
(* select_unassigned_variable and order_domain_values on any assignment    *)
(* of words of the list.                                                   *)
(* They change nothing of the object, so a second one in a row reaches     *)
(* nothing the first one does not reach: the client makes one after a      *)
(* call that may have changed the domains.                                 *)
(***************************************************************************)
ReadOnly == {"consistent", "select_unassigned_variable", "order_domain_values"}

\* The assignments of words of the word list to some of the variables.
Assignments ==
    UNION {[S -> crossword.words] : S \in SUBSET crossword.variables}

CallConsistent ==
    /\ pc = "idle"
    /\ op \notin ReadOnly
    /\ \E assignment \in Assignments :
          /\ arg' = [NoArg EXCEPT !.asg = assignment]
          /\ ret' = RetBool(Consistent(assignment))
    /\ op' = "consistent"
    /\ UNCHANGED <<crossword, varOrder, domains, pc, queue, stack, inSolve>>

\* sorted_list[0] raises IndexError when every variable is assigned.
CallSelectUnassignedVariable ==
    /\ pc = "idle"
    /\ op \notin ReadOnly
    /\ \E assignment \in Assignments :
          /\ arg' = [NoArg EXCEPT !.asg = assignment]
          /\ IF Unassigned(assignment, varOrder) = <<>>
             THEN ret' = Ret("IndexError") /\ pc' = "raised"
             ELSE /\ ret' = RetVariable(SelectUnassignedVariable(assignment, domains, varOrder))
                  /\ pc' = "idle"
    /\ op' = "select_unassigned_variable"
    /\ UNCHANGED <<crossword, varOrder, domains, queue, stack, inSolve>>

CallOrderDomainValues ==
    /\ pc = "idle"
    /\ op \notin ReadOnly
    /\ \E var \in crossword.variables, assignment \in Assignments :
          /\ arg' = [NoArg EXCEPT !.x = {var}, !.asg = assignment]
          /\ ret' = OrderDomainValues(var, assignment, domains)
    /\ pc' = "raised"
    /\ op' = "order_domain_values"
    /\ UNCHANGED <<crossword, varOrder, domains, queue, stack, inSolve>>

(***************************************************************************)
(* The program: main() builds a CrosswordCreator and calls solve().        *)
(***************************************************************************)
Next ==
    \/ CallSolve
    \/ Ac3QueueEmpty
    \/ Ac3Iterate
    \/ SolveBacktrack
    \/ BacktrackTry
    \/ BacktrackExhausted

Spec == Init /\ [][Next]_vars

\* The interpreter runs the program on: a statement that can be executed
\* is executed.
SpecFair == Spec /\ WF_vars(Next)

(***************************************************************************)
(* A client of the propagation methods: enforce_node_consistency, revise   *)
(* and ac3 called in any order.                                            *)
(***************************************************************************)
NextPropagate ==
    \/ CallEnforceNodeConsistency
    \/ CallRevise
    \/ CallAc3
    \/ CallAc3Arcs
    \/ Ac3QueueEmpty
    \/ Ac3Iterate

SpecPropagate == Init /\ [][NextPropagate]_vars

(***************************************************************************)
(* A client of the search: backtrack(dict()) called on the domains as      *)
(* they are, pruned or not.                                                *)
(***************************************************************************)
NextSearch ==
    \/ CallEnforceNodeConsistency
    \/ CallRevise
    \/ CallBacktrack
    \/ BacktrackTry
    \/ BacktrackExhausted

SpecSearch == Init /\ [][NextSearch]_vars

(***************************************************************************)
(* A client of the methods that only read, on domains pruned or not.       *)
(***************************************************************************)
NextQuery ==
    \/ CallEnforceNodeConsistency
    \/ CallRevise
    \/ CallConsistent
    \/ CallSelectUnassignedVariable
    \/ CallOrderDomainValues

SpecQuery == Init /\ [][NextQuery]_vars

(***************************************************************************)
(* The vocabulary of the properties, written from the problem statement    *)
(* and not from the code of the solver.                                    *)
(***************************************************************************)
\* The ordered pairs of slots that share a cell.
NeighbouringPairs ==
    {p \in crossword.variables \X crossword.variables :
        p[1] # p[2] /\ Cells(p[1]) \cap Cells(p[2]) # {}}

\* Word w in slot x and word u in slot y have the same letter in the cell
\* the two slots share.
AgreeAt(x, y, w, u) ==
    /\ Len(w) > Overlaps(x, y)[1]
    /\ Len(u) > Overlaps(x, y)[2]
    /\ w[Overlaps(x, y)[1] + 1] = u[Overlaps(x, y)[2] + 1]

PairwiseDistinct(a) == \A x, y \in DOMAIN a : x # y => a[x] # a[y]

LengthsFit(a) == \A x \in DOMAIN a : Len(a[x]) = x.length

OverlapsRespected(a) ==
    \A p \in NeighbouringPairs :
        (p[1] \in DOMAIN a /\ p[2] \in DOMAIN a) => AgreeAt(p[1], p[2], a[p[1]], a[p[2]])

IsSolution(a) ==
    /\ DOMAIN a = crossword.variables
    /\ LengthsFit(a)
    /\ PairwiseDistinct(a)
    /\ OverlapsRespected(a)

SolutionExists ==
    \E a \in [crossword.variables -> crossword.words] : IsSolution(a)

\* Every word of every domain has a support in the domain of each neighbour.
ArcConsistent(D) ==
    \A p \in NeighbouringPairs :
        \A w \in D[p[1]] : \E u \in D[p[2]] : AgreeAt(p[1], p[2], w, u)

\* ac3 has just returned (to the client or to solve).
Ac3Returned == op = "ac3" /\ pc \in {"idle", "solve_backtrack"}

\* This step is a return of ac3.
Ac3Returns == pc = "ac3" /\ pc' \in {"idle", "solve_backtrack"}

\* This step runs revise(x, y): called by the client, or by ac3 on the
\* arc at the head of its queue.
ReviseRuns(x, y) ==
    \/ pc = "idle" /\ op' = "revise" /\ arg'.x = {x} /\ arg'.y = {y}
    \/ pc = "ac3" /\ queue # <<>> /\ Head(queue) = <<x, y>> /\ queue' # queue

(***************************************************************************)
(* Properties.                                                             *)
(***************************************************************************)
\* C1: solve() returns a complete assignment, one word for every slot, if
\* and only if some complete assignment of words of the list satisfies the
\* length, distinctness and overlap constraints; otherwise it returns None.
SolveFindsAnAssignmentIffOneExists ==
    (pc = "idle" /\ op = "solve") =>
        IF SolutionExists
        THEN ret.kind = "assignment" /\ DOMAIN ret.asg = crossword.variables
        ELSE ret.kind = "None"

\* solve() has returned an assignment of the puzzle with three slots.
SolveFilledThreeSlots ==
    /\ pc = "idle" /\ op = "solve"
    /\ ret.kind = "assignment"
    /\ Cardinality(DOMAIN ret.asg) = 3

\* C2: ac3 returns success only with an empty worklist, and failure only
\* when a domain has been emptied.
Ac3ReturnsWithWorklistDrained ==
    Ac3Returned =>
        /\ ret.kind = "True" => queue = <<>>
        /\ ret.kind = "False" => \E v \in crossword.variables : domains[v] = {}

\* C3: whenever ac3 returns success the domains are arc consistent.
Ac3SuccessIsArcConsistent ==
    (Ac3Returned /\ ret.kind = "True") => ArcConsistent(domains)

\* C4: ac3 returns False if and only if the propagation has emptied a
\* domain, and True in every other run.
Ac3ReturnsFalseIffDomainEmptied ==
    [][Ac3Returns =>
          IF \E v \in crossword.variables : domains[v] # {} /\ domains'[v] = {}
          THEN ret'.kind = "False"
          ELSE ret'.kind = "True"]_vars

\* C5: for slots x and y with an overlap, at offset 0 of x or not,
\* revise(x, y) removes from domain(x) exactly the words without a support
\* in domain(y), changes no other domain, and returns whether domain(x)
\* has changed.
ReviseRemovesExactlyUnsupportedWords ==
    [][\A p \in NeighbouringPairs :
          ReviseRuns(p[1], p[2]) =>
              /\ domains'[p[1]] =
                    {w \in domains[p[1]] :
                        \E u \in domains[p[2]] : AgreeAt(p[1], p[2], w, u)}
              /\ \A z \in crossword.variables \ {p[1]} : domains'[z] = domains[z]
              /\ op' = "revise" =>
                    ret'.kind = (IF domains' # domains THEN "True" ELSE "False")]_vars

\* C6: for slots x and y without an overlap, revise(x, y) changes no
\* domain, raises no error and returns False.
ReviseWithoutOverlapIsNoOp ==
    [][\A x, y \in crossword.variables :
          (x # y /\ Overlaps(x, y) = NoOverlap /\ ReviseRuns(x, y)) =>
              /\ domains' = domains
              /\ ret'.kind = "False"
              /\ pc' # "raised"]_vars

\* C7: enforce_node_consistency leaves in the domain of every slot s only
\* words of length s.length, and removes no word of that length: run on the
\* initial store, it keeps every word of the word list of length s.length.
NodeConsistencyKeepsExactlyTheRightLength ==
    [][(pc = "idle" /\ op' = "enforce_node_consistency") =>
          \A s \in crossword.variables :
              /\ \A w \in domains'[s] : Len(w) = s.length
              /\ \A w \in domains[s] : Len(w) = s.length => w \in domains'[s]
              /\ op = "__init__" =>
                    \A w \in crossword.words : Len(w) = s.length => w \in domains'[s]]_vars

\* enforce_node_consistency has run and has left a slot a domain that is
\* neither empty nor the whole word list.
NodeConsistencyRemovedSomeWords ==
    /\ pc = "idle" /\ op = "enforce_node_consistency"
    /\ \E s \in crossword.variables :
          domains[s] # {} /\ domains[s] # crossword.words

\* C8: consistent(assignment) is true if and only if the assigned words
\* are pairwise distinct, each has the length of its slot, and assigned
\* neighbours agree at their overlap; the empty assignment is consistent.
ConsistentIffDistinctFittingAgreeing ==
    op = "consistent" =>
        /\ ret.kind = "True" <=>
              (PairwiseDistinct(arg.asg) /\ LengthsFit(arg.asg) /\ OverlapsRespected(arg.asg))
        /\ arg.asg = EmptyAssignment => ret.kind = "True"

\* consistent has accepted an assignment of two neighbouring slots.
ConsistentAcceptedTwoNeighbours ==
    /\ op = "consistent" /\ ret.kind = "True"
    /\ \E p \in NeighbouringPairs : p[1] \in DOMAIN arg.asg /\ p[2] \in DOMAIN arg.asg

\* C9: the assignment of every call of backtrack in progress, and every
\* assignment backtrack returns, has no word used by two slots, and its
\* assigned neighbours agree at their overlap.
BacktrackAssignmentsRespectConstraints ==
    /\ \A k \in DOMAIN stack :
          PairwiseDistinct(stack[k].assignment) /\ OverlapsRespected(stack[k].assignment)
    /\ (op \in {"backtrack", "solve"} /\ ret.kind = "assignment") =>
          PairwiseDistinct(ret.asg) /\ OverlapsRespected(ret.asg)

\* A recursive call of backtrack is running on an assignment of two
\* neighbouring slots.
BacktrackRecursedOnTwoNeighbours ==
    /\ pc = "backtrack"
    /\ Len(stack) = 3
    /\ \E p \in NeighbouringPairs :
          p[1] \in DOMAIN stack[3].assignment /\ p[2] \in DOMAIN stack[3].assignment

\* C10: when a slot is unassigned, select_unassigned_variable returns a
\* slot that is not in the assignment and whose domain is as small as the
\* domain of any unassigned slot.
SelectReturnsUnassignedOfMinimumDomain ==
    (op = "select_unassigned_variable"
        /\ \E u \in crossword.variables : u \notin DOMAIN arg.asg) =>
        /\ ret.kind = "variable"
        /\ \A v \in ret.var :
              /\ v \in crossword.variables \ DOMAIN arg.asg
              /\ \A u \in crossword.variables \ DOMAIN arg.asg :
                    Cardinality(domains[v]) <= Cardinality(domains[u])

\* select_unassigned_variable has returned a slot whose domain is
\* smaller than the domain of another unassigned slot.
SelectPreferredSmallerDomain ==
    /\ op = "select_unassigned_variable" /\ ret.kind = "variable"
    /\ \E v \in ret.var : \E u \in crossword.variables \ DOMAIN arg.asg :
          Cardinality(domains[v]) < Cardinality(domains[u])

\* The number of slots that share a cell with slot v.
Degree(v) == Cardinality({p \in NeighbouringPairs : p[1] = v})

\* C11: when several unassigned slots have the smallest domain size,
\* select_unassigned_variable returns one of them whose degree is the
\* largest among them.
SelectBreaksTiesByHighestDegree ==
    (op = "select_unassigned_variable" /\ ret.kind = "variable") =>
        \A v \in ret.var :
            \A u \in crossword.variables \ DOMAIN arg.asg :
                Cardinality(domains[u]) = Cardinality(domains[v]) =>
                    Degree(u) <= Degree(v)

\* The number of words that word w in slot s rules out of the domains of
\* the neighbours of s that are not in assignment a: the pairs of such a
\* neighbour and a word of its domain that disagrees with w at the overlap.
EliminationScore(s, w, a) ==
    Cardinality({q \in (crossword.variables \ DOMAIN a) \X crossword.words :
                    /\ <<s, q[1]>> \in NeighbouringPairs
                    /\ q[2] \in domains[q[1]]
                    /\ ~AgreeAt(s, q[1], w, q[2])})

\* C12: order_domain_values(s, assignment) returns, without an error, a
\* list of the words of domain(s), each once, in ascending order of the
\* number of words they rule out of the domains of the unassigned
\* neighbours of s.
OrderDomainValuesSortsByEliminations ==
    op = "order_domain_values" =>
        /\ ret.kind = "list"
        /\ \A s \in arg.x :
              /\ Range(ret.list) = domains[s]
              /\ Len(ret.list) = Cardinality(domains[s])
              /\ \A i, j \in DOMAIN ret.list :
                    i < j => EliminationScore(s, ret.list[i], arg.asg)
                                <= EliminationScore(s, ret.list[j], arg.asg)

\* solve() has returned.
SolveReturned == pc = "idle" /\ op = "solve"

\* C13: solve() never ends with an exception; it returns None when no
\* assignment is found, also when node or arc consistency has emptied a
\* domain before the search, and the empty mapping is returned only for a
\* puzzle without slots, for which None is never returned.
SolveFailureIsNoneNotEmptyMapping ==
    /\ inSolve => pc # "raised"
    /\ SolveReturned =>
          /\ ret.kind \in {"None", "assignment"}
          /\ (\E v \in crossword.variables : domains[v] = {}) => ret.kind = "None"
          /\ (ret.kind = "assignment" /\ ret.asg = EmptyAssignment)
                => crossword.variables = {}
          /\ crossword.variables = {} => ret = RetAssignment(EmptyAssignment)

\* solve() has returned None for a puzzle in which propagation had emptied
\* the domain of a slot.
SolveFailedOnEmptiedDomain ==
    /\ SolveReturned
    /\ ret.kind = "None"
    /\ \E v \in crossword.variables : domains[v] = {}
    /\ \E v \in crossword.variables : domains[v] # {}

\* backtrack(dict()), called by the client, has returned.
BacktrackReturned == pc = "idle" /\ op = "backtrack"

\* No propagation has run: every domain is the whole word list.
Unpruned == \A v \in crossword.variables : domains[v] = crossword.words

\* C14: backtrack on the empty assignment with the unpruned domains, every
\* domain the whole word list, returns an assignment exactly when solve()
\* does, that is when a solution exists, and the assignment it returns is
\* complete and satisfies the length, distinctness and overlap constraints.
BacktrackWithoutPropagationAgreesWithSolve ==
    (BacktrackReturned /\ Unpruned) =>
        IF SolutionExists
        THEN ret.kind = "assignment" /\ IsSolution(ret.asg)
        ELSE ret.kind = "None"

\* backtrack has returned an assignment of two crossing slots from domains
\* that still hold a word of the wrong length.
BacktrackSolvedUnprunedPuzzle ==
    /\ BacktrackReturned
    /\ Unpruned
    /\ ret.kind = "assignment"
    /\ Cardinality(DOMAIN ret.asg) >= 2
    /\ \E v \in crossword.variables : \E w \in domains[v] : Len(w) # v.length

\* C15: solve() eventually returns, an assignment or None: the loop of ac3
\* and the recursion of backtrack end, and the recursion is never deeper
\* than the number of slots.
SolveEventuallyReturns ==
    /\ [](Len(stack) <= Cardinality(crossword.variables))
    /\ <>SolveReturned

\* solve() has returned from a search that went through every candidate of
\* a puzzle with three slots, none of them with an empty domain.
SolveReturnedFromExhaustedSearch ==
    /\ SolveReturned
    /\ ret.kind = "None"
    /\ Cardinality(crossword.variables) = 3
    /\ \A v \in crossword.variables : domains[v] # {}

\* The puzzle of the scenario: slot A across at row 0 and slot B down at
\* column 1, both of length 3, the second letter of A over the first of B.
ScenarioA == Variable(0, 0, ACROSS, 3)
ScenarioB == Variable(0, 1, DOWN, 3)
ScenarioPuzzle ==
    /\ crossword.variables = {ScenarioA, ScenarioB}
    /\ Overlaps(ScenarioA, ScenarioB) = <<1, 0>>

\* C16: on the puzzle of the scenario solve() returns A = CAT, B = ART for
\* the word list {CAT, DOG, ART, TIP}, and None for the word list {CAT, DOG}.
ScenarioSolvedWithCatAndArt ==
    (SolveReturned /\ ScenarioPuzzle) =>
        /\ crossword.words = {CAT, DOG, ART, TIP} =>
              /\ ret.kind = "assignment"
              /\ DOMAIN ret.asg = {ScenarioA, ScenarioB}
              /\ ret.asg[ScenarioA] = CAT
              /\ ret.asg[ScenarioB] = ART
        /\ crossword.words = {CAT, DOG} => ret.kind = "None"

\* solve() has returned A = CAT, B = ART on the scenario's four words.
ScenarioReturnedCatAndArt ==
    /\ SolveReturned
    /\ ScenarioPuzzle
    /\ crossword.words = {CAT, DOG, ART, TIP}
    /\ ret.kind = "assignment"
    /\ ret.asg[ScenarioA] = CAT
    /\ ret.asg[ScenarioB] = ART

\* C17: in ac3, when revise(x, y) has changed domain(x) and left it
\* non-empty, every arc (z, x) for a neighbour z of x other than y is put on
\* the worklist, and ac3 does not return True while such an arc is still
\* waiting to be revised.
Ac3RevisesRequeuedArcsBeforeSuccess ==
    [][\A p \in NeighbouringPairs :
          ( /\ pc = "ac3"
            /\ ReviseRuns(p[1], p[2])
            /\ domains'[p[1]] # domains[p[1]]
            /\ domains'[p[1]] # {} ) =>
              \A z \in Neighbors(p[1]) \ {p[2]} :
                  /\ <<z, p[1]>> \in Range(queue')
                  /\ ~(Ac3Returns /\ ret'.kind = "True")]_vars

\* C18: when no two slots overlap, so that the worklist of ac3 starts
\* empty, and no domain is empty, ac3 returns True.
Ac3OnEmptyWorklistReturnsTrue ==
    ( /\ Ac3Returned
      /\ arg.arcs = {}
      /\ NeighbouringPairs = {}
      /\ \A v \in crossword.variables : domains[v] # {} ) => ret.kind = "True"

\* This step is a call of ac3, by the client or by solve.
Ac3Called == pc = "idle" /\ op' = "ac3"

\* C19: ac3 called with a non-empty set of arcs starts, without an error,
\* with exactly those arcs on its worklist; called without arcs it starts
\* with every ordered pair of neighbouring slots on its worklist.
Ac3StartsFromTheGivenArcs ==
    [][Ac3Called =>
          /\ pc' = "ac3"
          /\ Len(queue') = Cardinality(Range(queue'))
          /\ Range(queue') = IF arg'.arcs # {} THEN arg'.arcs
                             ELSE NeighbouringPairs]_vars

\* C20: when ac3 returns True no domain is empty, and when a domain is
\* empty at its return, emptied by the propagation or empty already at the
\* call, ac3 has returned False.
Ac3TrueLeavesNoEmptyDomain ==
    Ac3Returned =>
        /\ ret.kind = "True" => \A v \in crossword.variables : domains[v] # {}
        /\ (\E v \in crossword.variables : domains[v] = {}) => ret.kind = "False"

\* The value this step of the innermost call of backtrack takes from its
\* domain, if the step is a pass of the for loop: the value the loop has
\* moved past, or the value that completed the returned assignment.
TriedValues ==
    IF pc # "backtrack" THEN {}
    ELSE LET top == stack[Len(stack)]
         IN IF stack' = <<>> /\ ret'.kind = "assignment"
            THEN {ret'.asg[top.variable]}
            ELSE IF Len(stack') >= Len(stack)
            THEN top.untried \ stack'[Len(stack)].untried
            ELSE {}

\* C21: backtrack tries the words of the selected slot in ascending order
\* of elimination score: no word is tried while a word with a strictly
\* smaller elimination score is still to be tried.
BacktrackTriesLeastConstrainingFirst ==
    [][\A value \in TriedValues :
          LET top == stack[Len(stack)]
          IN \A other \in top.untried :
                EliminationScore(top.variable, value, top.assignment)
                    <= EliminationScore(top.variable, other, top.assignment)]_vars

\* The complete assignments of words of the list that satisfy the length,
\* distinctness and overlap constraints.
Solutions == {a \in [crossword.variables -> crossword.words] : IsSolution(a)}

\* C22: pruning never discards a solution: after enforce_node_consistency,
\* after any revise(x, y) and after ac3, the word every solution gives to a
\* slot is still in the domain of that slot.
PruningKeepsEverySolution ==
    \A a \in Solutions : \A v \in crossword.variables : a[v] \in domains[v]

\* ac3 has returned on a puzzle that has a solution, with a word of the
\* right length pruned from the domain of a slot.
Ac3PrunedASolvablePuzzle ==
    /\ Ac3Returned
    /\ Solutions # {}
    /\ \E v \in crossword.variables : \E w \in crossword.words \ domains[v] :
          Len(w) = v.length

\* This step belongs to the search: the call of backtrack, a pass of the
\* loop of one of its calls with the calls of consistent and
\* select_unassigned_variable it makes, or a return.
SearchStep == pc = "backtrack" \/ pc' = "backtrack" \/ op' = "backtrack"

\* C23: the search never changes the domains: no step from the first call
\* of backtrack to its return, a branch given up included, changes the
\* domain of a slot.
SearchLeavesDomainsUnchanged ==
    [][SearchStep => domains' = domains]_vars

\* backtrack has gone through every branch of a puzzle with three slots and
\* returned None, and every domain is still the whole word list.
BacktrackFailedOnUnprunedThreeSlots ==
    /\ BacktrackReturned
    /\ ret.kind = "None"
    /\ Unpruned
    /\ Cardinality(crossword.variables) = 3
    /\ Cardinality(crossword.words) >= 2

\* C24: the assignment of a call of backtrack is private to it: trying a
\* word and recursing on the extended copy never changes the mapping of the
\* call, so that after a word is rejected or its recursion has failed the
\* next word is tried on exactly the assignment the call was given.
BranchAssignmentIsPrivate ==
    [][\A k \in DOMAIN stack \cap DOMAIN stack' :
          /\ stack'[k].assignment = stack[k].assignment
          /\ stack'[k].variable = stack[k].variable
          /\ stack[k].variable \notin DOMAIN stack[k].assignment]_vars

\* A call of backtrack on a non-empty assignment has had a word rejected,
\* or has seen the recursion on it fail, and has more words to try.
BacktrackMovedOnToNextCandidate ==
    /\ pc = "backtrack"
    /\ Len(stack) >= 2
    /\ LET top == stack[Len(stack)]
       IN /\ top.untried # {}
          /\ top.untried # domains[top.variable]
          /\ top.assignment # EmptyAssignment

\* C25: the domains only shrink: no step of enforce_node_consistency,
\* revise or ac3 adds a word to a domain, every domain stays a subset of
\* the word list, and the slots that have a domain stay the slots of the
\* puzzle.
DomainsShrinkMonotonically ==
    [][/\ DOMAIN domains = crossword.variables
       /\ DOMAIN domains' = DOMAIN domains
       /\ \A v \in DOMAIN domains :
             /\ domains'[v] \subseteq domains[v]
             /\ domains[v] \subseteq crossword.words]_vars

\* enforce_node_consistency has run on a store from which revise had
\* already pruned a word of the right length.
NodeConsistencyRanAfterRevisePruned ==
    /\ pc = "idle" /\ op = "enforce_node_consistency"
    /\ \E v \in crossword.variables :
          /\ \E w \in crossword.words \ domains[v] : Len(w) = v.length
          /\ \E w \in crossword.words \ domains[v] : Len(w) # v.length
          /\ domains[v] # {}

\* C26: the slot select_unassigned_variable returns does not depend on the
\* order in which the slots are iterated: for the same assignment and the
\* same domains it is the slot the method returns under every other order
\* of self.domains.
SelectIndependentOfIterationOrder ==
    (op = "select_unassigned_variable" /\ ret.kind = "variable") =>
        \A order \in Perms(crossword.variables) :
            ret.var = {SelectUnassignedVariable(arg.asg, domains, order)}

\* Every word of every domain has the length of its slot.
NodeConsistent(D) == \A v \in DOMAIN D : \A w \in D[v] : Len(w) = v.length

\* This step is a call of enforce_node_consistency by the client.
NodeConsistencyRuns == pc = "idle" /\ op' = "enforce_node_consistency"

\* C27: enforce_node_consistency never raises and changes nothing but the
\* domains; run a second time, or on a store that is node-consistent
\* already, it changes no domain.
NodeConsistencyIsIdempotentAndTotal ==
    [][NodeConsistencyRuns =>
          /\ pc' = "idle" /\ ret'.kind = "None"
          /\ UNCHANGED <<crossword, varOrder, queue, stack, inSolve>>
          /\ NodeConsistent(domains')
          /\ NodeConsistent(domains) => domains' = domains
          /\ op = "enforce_node_consistency" => domains' = domains]_vars

\* enforce_node_consistency has returned, leaving a node-consistent store
\* from which revise has pruned a word of the right length.
NodeConsistencyRanOnConsistentStore ==
    /\ pc = "idle" /\ op = "enforce_node_consistency"
    /\ NodeConsistent(domains)
    /\ \E v \in crossword.variables :
          /\ \E w \in crossword.words \ domains[v] : Len(w) = v.length
          /\ Cardinality(domains[v]) >= 2
====
